---- MODULE Spec2Model ----
(***************************************************************************)
(* A model of lmk (src/main.go): the page of food-safety findings is       *)
(* fetched, its table is turned into items (sel2item, loadItems), the      *)
(* items are optionally deduplicated against the sqlite store and handed   *)
(* to the printer (run).                                                    *)
(*                                                                         *)
(* A Go string is modelled as the sequence of its characters, each a       *)
(* one-character TLA+ string, so that trimming, splitting and date parsing *)
(* are computed character by character as the code computes them.          *)
(***************************************************************************)
EXTENDS Integers, Sequences, FiniteSets, TLC

\* ------------------------------------------------------------------------
\* Bounds of the model

\* Body rows of a fetched page.
MaxRows == 2
\* Runs of the program against the same store.
MaxRuns == 2
\* Cells of a probed row (0..MaxCells).
MaxCells == 9

\* ------------------------------------------------------------------------
\* String helpers (package strings)

\* The least i with d at s[i..], 0 when d does not occur (strings.Index + 1).
Index(s, d) ==
    LET hits == {i \in 1..(Len(s) - Len(d) + 1) : SubSeq(s, i, i + Len(d) - 1) = d}
    IN  IF hits = {} THEN 0 ELSE CHOOSE i \in hits : \A j \in hits : i <= j

\* strings.Contains
Contains(s, d) == Index(s, d) # 0

\* strings.Split(s, d)[0] for a non-empty d: the text before the first d, or
\* all of s when d does not occur.
SplitFirst(s, d) ==
    IF Index(s, d) = 0 THEN s ELSE SubSeq(s, 1, Index(s, d) - 1)

\* strings.ReplaceAll(s, old, new) for a non-empty old: matches are found left
\* to right and do not overlap.
RECURSIVE ReplaceAll(_, _, _)
ReplaceAll(s, old, new) ==
    IF Index(s, old) = 0
    THEN s
    ELSE SubSeq(s, 1, Index(s, old) - 1) \o new
         \o ReplaceAll(SubSeq(s, Index(s, old) + Len(old), Len(s)), old, new)

\* The cutset of trimText: space, tab, carriage return, newline.
Cutset == {" ", "\t", "\r", "\n"}

RECURSIVE TrimLeft(_)
TrimLeft(s) ==
    IF s # <<>> /\ Head(s) \in Cutset THEN TrimLeft(Tail(s)) ELSE s

RECURSIVE TrimRight(_)
TrimRight(s) ==
    IF s # <<>> /\ s[Len(s)] \in Cutset
    THEN TrimRight(SubSeq(s, 1, Len(s) - 1))
    ELSE s

\* func trimText: strings.Trim(t, " \t\r\n")
trimText(t) == TrimRight(TrimLeft(t))

\* The delimiters of fixDateString, in the order they are applied.
DelimSlash == <<"/">>
DelimUnd == <<" ", "u", "n", "d", " ">>
DelimBis == <<" ", "b", "i", "s", " ">>
DelimComma == <<",", " ">>

\* func fixDateString
fixDateString(str) ==
    SplitFirst(SplitFirst(SplitFirst(SplitFirst(str,
        DelimSlash), DelimUnd), DelimBis), DelimComma)

\* ------------------------------------------------------------------------
\* time.Parse("02.01.2006", s), time.Time and Time.Compare

DigitSeq == <<"0", "1", "2", "3", "4", "5", "6", "7", "8", "9">>
Digits == {DigitSeq[i] : i \in 1..10}
DigitVal(c) == (CHOOSE i \in 1..10 : DigitSeq[i] = c) - 1

\* isDigit(s, i) of package time, with i counted from 0.
isDigit(s, i) == i + 1 <= Len(s) /\ s[i + 1] \in Digits

\* The value of the decimal digits s.
RECURSIVE Atoi(_)
Atoi(s) ==
    IF s = <<>> THEN 0
    ELSE 10 * Atoi(SubSeq(s, 1, Len(s) - 1)) + DigitVal(s[Len(s)])

isLeap(year) == year % 4 = 0 /\ (year % 100 # 0 \/ year % 400 = 0)

daysIn(m, year) ==
    IF m = 2 THEN (IF isLeap(year) THEN 29 ELSE 28)
    ELSE IF m \in {4, 6, 9, 11} THEN 30 ELSE 31

\* The zero time.Time: January 1, year 1, as <<year, month, day>>.
ZeroTime == <<1, 1, 1>>

\* Time.Compare of two dates at midnight UTC: -1, 0 or +1.
TimeCompare(a, b) ==
    IF a = b THEN 0
    ELSE IF \/ a[1] < b[1]
            \/ a[1] = b[1] /\ a[2] < b[2]
            \/ a[1] = b[1] /\ a[2] = b[2] /\ a[3] < b[3]
         THEN -1 ELSE 1

\* A parse that lets the day of the month go unchecked (a faulty variant).
timeParseNoDayCheck(s) ==
    IF /\ Len(s) = 10
       /\ \A i \in {0, 1, 3, 4, 6, 7, 8, 9} : isDigit(s, i)
       /\ s[3] = "." /\ s[6] = "."
       /\ Atoi(SubSeq(s, 4, 5)) \in 1..12
    THEN [ok |-> TRUE,
          t |-> <<Atoi(SubSeq(s, 7, 10)), Atoi(SubSeq(s, 4, 5)), Atoi(SubSeq(s, 1, 2))>>]
    ELSE [ok |-> FALSE, t |-> ZeroTime]

\* time.Parse(timeFormat, s) with timeFormat = "02.01.2006", read left to
\* right as the layout's chunks are: a two-digit day, ".", a two-digit month
\* (1..12), ".", a four-digit year, no text left over, and the day within the
\* month.
timeParse(s) ==
    LET bad == [ok |-> FALSE, t |-> ZeroTime]
    IN  IF ~(isDigit(s, 0) /\ isDigit(s, 1)) THEN bad          \* getnum(value, true)
        ELSE IF ~(Len(s) >= 3 /\ s[3] = ".") THEN bad           \* skip(value, ".")
        ELSE IF ~(isDigit(s, 3) /\ isDigit(s, 4)) THEN bad      \* getnum(value, true)
        ELSE IF Atoi(SubSeq(s, 4, 5)) \notin 1..12 THEN bad     \* month out of range
        ELSE IF ~(Len(s) >= 6 /\ s[6] = ".") THEN bad           \* skip(value, ".")
        ELSE IF ~(Len(s) >= 10 /\ \A i \in 6..9 : isDigit(s, i)) THEN bad \* stdLongYear
        ELSE IF Len(s) > 10 THEN bad                            \* extra text
        ELSE LET day == Atoi(SubSeq(s, 1, 2))
                 month == Atoi(SubSeq(s, 4, 5))
                 year == Atoi(SubSeq(s, 7, 10))
             IN  IF day < 1 \/ day > daysIn(month, year) THEN bad \* day out of range
                 ELSE [ok |-> TRUE, t |-> <<year, month, day>>]

\* ------------------------------------------------------------------------
\* sel2item: one row of cells to an item

\* const timeFormat = "02.01.2006" is built into timeParse; the number of
\* columns a row is expected to have (want in sel2item).
WantParts == 8

\* The line-break markup replaced in the found-at cell, and what replaces it.
BrTag ==
    <<"<","b","r","/",">">>
SlashSep == <<" ", "/", " ">>
Dot == <<".">>

\* A nil *item.
NilItem == [nil |-> TRUE]

\* A count check that takes 8 cells only (a faulty variant of partsOk).
partsOkStrict(got) == got = WantParts

\* The column-count test of sel2item: 8 cells, or 7 (the info column missing).
partsOk(got) == got = WantParts \/ got = WantParts - 1

\* strings.Contains(str, "."): the string looks like a date.
looksLikeDate(str) == Contains(str, Dot)

\* A cell is [text |-> the element's text, p |-> the inner markup of its
\* first ".text p" descendant, empty when it has none (Selection.Html of an
\* empty selection is "")].  Rendering markup to a buffer does not fail.
sel2item(cells) ==
    LET ss0 == [i \in 1..Len(cells) |-> trimText(cells[i].text)]
        got == Len(ss0)
    IN  IF ~partsOk(got)
        THEN [err |-> "parts", itm |-> NilItem]
        ELSE
        LET ss1 == IF got # WantParts THEN Append(ss0, <<>>) ELSE ss0
            ss == [i \in 1..WantParts |-> trimText(ss1[i])]
            t == cells[5].p
            foundAt0 == IF Contains(t, Dot) THEN ReplaceAll(t, BrTag, SlashSep)
                        ELSE ss[5]
            publishedAtStr == fixDateString(ss[2])
            foundAtStr == fixDateString(foundAt0)
            itm == [Authority |-> ss[1],
                    PublishedAt |-> ZeroTime,
                    PublishedAtStr |-> publishedAtStr,
                    FoundAt |-> ZeroTime,
                    FoundAtStr |-> foundAtStr,
                    Name |-> ss[3],
                    Address |-> ss[4],
                    Reason |-> ss[6],
                    LegalBasis |-> ss[7],
                    Info |-> ss[8]]
            pub == trimText(publishedAtStr)
            fnd == trimText(foundAtStr)
            pubP == timeParse(pub)
            fndP == timeParse(fnd)
        IN  IF looksLikeDate(pub) /\ ~pubP.ok
            THEN [err |-> "publishedAt", itm |-> NilItem]
            ELSE IF looksLikeDate(fnd) /\ ~fndP.ok
            THEN [err |-> "foundAt", itm |-> NilItem]
            ELSE [err |-> "none",
                  itm |-> [itm EXCEPT
                      !.PublishedAt = IF looksLikeDate(pub) THEN pubP.t ELSE @,
                      !.FoundAt = IF looksLikeDate(fnd) THEN fndP.t ELSE @]]

\* ------------------------------------------------------------------------
\* The inputs: header rows, body rows, pages

\* A cell with no ".text p" descendant.
Cell(text) == [text |-> text, p |-> <<>>]

\* The eight labels loadItems compares the heading with.
LabelAuthority ==
    <<"B","e","h","ö","r","d","e">>
LabelPublishedAt ==
    <<"D","a","t","u","m"," ","V","e","r","ö","f","f","e","n","t","l","i","c","h","u","n","g">>
LabelFoundAt ==
    <<"F","e","s","t","s","t","e","l","l","u","n","g","s","t","a","g">>
LabelName ==
    <<"B","e","t","r","i","e","b","s","b","e","z","e","i","c","h","n","u","n","g">>
LabelAddress ==
    <<"A","n","s","c","h","r","i","f","t">>
LabelReason ==
    <<"S","a","c","h","v","e","r","h","a","l","t","/","G","r","u","n","d"," ","d","e","r"," ","B","e","a","n","s","t","a","n","d","u","n","g">>
LabelLegalBasis ==
    <<"R","e","c","h","t","s","g","r","u","n","d","l","a","g","e">>
LabelInfo ==
    <<"H","i","n","w","e","i","s","e"," ","z","u","r"," ","M","ä","n","g","e","l","b","e","s","e","i","t","i","g","u","n","g"," ","u","n","d"," ","B","e","m","e","r","k","u","n","g","e","n">>

\* The labels in column order (published-at is column 2, found-at column 5).
ExpectedLabels ==
    <<LabelAuthority, LabelPublishedAt, LabelName, LabelAddress,
      LabelFoundAt, LabelReason, LabelLegalBasis, LabelInfo>>

\* The text of the row loadItems skips.
Startseite ==
    <<"S","t","a","r","t","s","e","i","t","e">>

\* Date texts.
D14 ==
    <<"1","4",".","0","4",".","2","0","2","5">>
D15 ==
    <<"1","5",".","0","4",".","2","0","2","5">>
D16 ==
    <<"1","6",".","0","4",".","2","0","2","5">>
DIso ==
    <<"2","0","2","5",".","0","4",".","1","5">>
DFeb ==
    <<"3","1",".","0","2",".","2","0","2","5">>
DLeap ==
    <<"2","9",".","0","2",".","2","0","2","4">>
DShort ==
    <<"5",".","4",".","2","0","2","5">>
DYear0 ==
    <<"1","5",".","0","4",".","0","0","0","0">>
DYear1 ==
    <<"0","1",".","0","1",".","0","0","0","1">>
DTrailingZ ==
    <<"1","5",".","0","4",".","2","0","2","5","z">>
Offen ==
    <<"o","f","f","e","n">>
\* Two stacked dates in a found-at cell: the markup of its ".text p" and the
\* text of the cell.
DBrMarkup ==
    <<"1","4",".","0","4",".","2","0","2","5","<","b","r","/",">","1","5",".","0","4",".","2","0","2","5">>
DBrText ==
    <<"1","4",".","0","4",".","2","0","2","5","1","5",".","0","4",".","2","0","2","5">>

\* The heading rows a page may carry ("thead th p"): each a row of cells.
HeaderOf(labels) == [i \in 1..Len(labels) |-> Cell(labels[i])]

HeaderPool ==
    << \* 1: the expected labels, one of them with white space around it
       HeaderOf([ExpectedLabels EXCEPT ![1] = <<" ">> \o @ \o <<"\n">>]),
       \* 2: another authority label
       HeaderOf([ExpectedLabels EXCEPT ![1] = <<"A","m","t">>]),
       \* 3: a published-at label with ", Stand" after the expected one
       HeaderOf([ExpectedLabels EXCEPT ![2] = @ \o <<",", " ", "S","t","a","n","d">>]),
       \* 4: the info label missing
       HeaderOf(SubSeq(ExpectedLabels, 1, 7)),
       \* 5: another found-at label
       HeaderOf([ExpectedLabels EXCEPT ![5] = <<"T","a","g">>]) >>

\* The texts of a body row's fixed columns.
TxtAuthority == <<" ", "A", "\n">>
TxtName == <<"N">>
TxtAddress == <<"S">>
TxtReason == <<"R">>
TxtLegalBasis == <<"L">>
TxtInfo == <<"I">>
TxtExtra == <<"X">>

\* The first n cells of a row with the given published-at text and found-at
\* cell.
RowOf(pub, found, n) ==
    SubSeq(<<Cell(TxtAuthority), Cell(pub), Cell(TxtName), Cell(TxtAddress),
             found, Cell(TxtReason), Cell(TxtLegalBasis), Cell(TxtInfo)>>
           \o [i \in 1..MaxCells |-> Cell(TxtExtra)],
           1, n)

\* The body rows a page may carry ("tbody tr", each the row's "td" cells).
RowPool ==
    << \* 1: a well-formed row of 8 cells
       RowOf(D15, Cell(D14), 8),
       \* 2: a row of 7 cells
       RowOf(D16, Cell(D14), 7),
       \* 3: row 1 with two published-at dates
       RowOf(D15 \o SlashSep \o D16, Cell(D14), 8),
       \* 4: a published-at text that is no date
       RowOf(Offen, Cell(D14), 8),
       \* 5: a dotted published-at text that is no DD.MM.YYYY date
       RowOf(DIso, Cell(D14), 8),
       \* 6: a row of 6 cells
       RowOf(D15, Cell(D14), 6),
       \* 7: the sentinel row
       <<Cell(Startseite)>>,
       \* 8: a published-at date in the year 0000
       RowOf(DYear0, Cell(D14), 8),
       \* 9: stacked found-at dates, published before row 1
       RowOf(D14, [text |-> DBrText, p |-> DBrMarkup], 8),
       \* 10: the sentinel with white space around it
       <<Cell(<<" ">> \o Startseite \o <<"\n">>)>>,
       \* 11: the sentinel split over two cells
       <<Cell(SubSeq(Startseite, 1, 5)), Cell(SubSeq(Startseite, 6, 10))>>,
       \* 12: a row without cells
       <<>> >>

\* Selection.Text: the texts of the selected cells, concatenated.
RECURSIVE SelText(_)
SelText(cells) ==
    IF cells = <<>> THEN <<>> ELSE Head(cells).text \o SelText(Tail(cells))

\* HTTP statuses a response may carry.
Statuses == {200, 404}

\* The sequences over 1..n of length at most k.
SeqsUpTo(n, k) == UNION {[1..m -> 1..n] : m \in 0..k}

\* A page names its heading row and body rows by their place in the pools.
Pages ==
    [status : Statuses,
     header : 1..Len(HeaderPool),
     rows : SeqsUpTo(Len(RowPool), MaxRows)]

NoPage == [status |-> 0, header |-> 0, rows |-> <<>>]

\* ------------------------------------------------------------------------
\* The state

VARIABLES
    pc,         \* where the run is: idle, header, rows, store, prepare,
                \* insert, print, done (and probe, probed: see SpecExtract)
    runs,       \* runs started so far
    newOnly,    \* the -new flag of the run
    page,       \* the response of the run's GET
    idx,        \* the body row, or the item, the run's loop is at
    items,      \* items of run()/loadItems()
    parsed,     \* history: the items as extracted, in document order
    err,        \* the error run() returns, "none" when nil
    store,      \* the sqlite file: exists, has the items table, its rows
    store0,     \* history: the store when the run started
    attempts,   \* history: the run's insert attempts, in order
    inserted,   \* history: the items ever written to the store
    newItems,   \* newItems of run()
    printed,    \* whether the run reached the printing of its items
    out,        \* the items handed to the printer
    reported,   \* history: the items printed by runs with -new, in order
    probe,      \* SpecExtract: the row given to sel2item
    result      \* SpecExtract: what sel2item returned

vars == <<pc, runs, newOnly, page, idx, items, parsed, err, store, store0,
          attempts, inserted, newItems, printed, out, reported, probe, result>>

NoStore == [exists |-> FALSE, schema |-> FALSE, rows |-> <<>>]
NoProbe == [n |-> 0, pub |-> <<>>, found |-> Cell(<<>>)]
NoResult == [err |-> "unset", itm |-> NilItem]

HeaderCells == HeaderPool[page.header]

\* sel2item of every row of the pools, computed once.
RowResult == [r \in 1..Len(RowPool) |-> sel2item(RowPool[r])]
HeaderResult == [h \in 1..Len(HeaderPool) |-> sel2item(HeaderPool[h])]

\* ------------------------------------------------------------------------
\* Hashing and the store

\* A fingerprint of the columns the table stores only (a faulty variant of
\* Fingerprint: the raw date texts are left out).
FingerprintOfColumns(itm) ==
    <<itm.Authority, itm.PublishedAt, itm.FoundAt, itm.Name, itm.Address,
      itm.Reason, itm.LegalBasis, itm.Info>>

\* hex(sha256(gob(itm))): gob writes every exported field of item, the raw
\* date texts included, and the digest is taken to be free of collisions, so
\* the fingerprint stands for exactly the ten field values.
Fingerprint(itm) ==
    <<itm.Authority, itm.PublishedAt, itm.PublishedAtStr, itm.FoundAt,
      itm.FoundAtStr, itm.Name, itm.Address, itm.Reason, itm.LegalBasis,
      itm.Info>>

\* The row sqliteInsertStmt writes for an item.
StoredRow(itm) ==
    [hash |-> Fingerprint(itm),
     authority |-> itm.Authority,
     published_at |-> itm.PublishedAt,
     found_at |-> itm.FoundAt,
     name |-> itm.Name,
     address |-> itm.Address,
     reason |-> itm.Reason,
     legal_basis |-> itm.LegalBasis,
     info |-> itm.Info]

\* A table whose hash column is not unique: no hash counts as taken (a faulty
\* variant of Hashes).
HashesNotUnique(st) == {}

\* The hashes the unique column of the table holds.
Hashes(st) == {st.rows[i].hash : i \in 1..Len(st.rows)}

\* ------------------------------------------------------------------------
\* slices.SortStableFunc by PublishedAt

\* A comparison that calls equal dates out of order (a faulty variant).
cmpPublishedAtTies(a, b) ==
    IF TimeCompare(a.PublishedAt, b.PublishedAt) = 0 THEN -1
    ELSE TimeCompare(a.PublishedAt, b.PublishedAt)

\* The comparison loadItems sorts by.
cmpPublishedAt(a, b) == TimeCompare(a.PublishedAt, b.PublishedAt)

\* One pass of the insertion sort SortStableFunc runs on a short slice: x
\* moves left past every element it compares less than.
RECURSIVE InsertSorted(_, _)
InsertSorted(s, x) ==
    IF s = <<>> \/ cmpPublishedAt(x, s[Len(s)]) >= 0
    THEN Append(s, x)
    ELSE Append(InsertSorted(SubSeq(s, 1, Len(s) - 1), x), s[Len(s)])

RECURSIVE SortStable(_)
SortStable(s) ==
    IF s = <<>> THEN <<>>
    ELSE InsertSorted(SortStable(SubSeq(s, 1, Len(s) - 1)), s[Len(s)])

\* ------------------------------------------------------------------------
\* The run: run() and loadItems(), a step at a time

Init ==
    /\ pc = "idle"
    /\ runs = 0
    /\ newOnly = FALSE
    /\ page = NoPage
    /\ idx = 0
    /\ items = <<>>
    /\ parsed = <<>>
    /\ err = "none"
    /\ store = NoStore
    /\ store0 = NoStore
    /\ attempts = <<>>
    /\ inserted = {}
    /\ newItems = <<>>
    /\ printed = FALSE
    /\ out = <<>>
    /\ reported = <<>>
    /\ probe = NoProbe
    /\ result = NoResult

\* main() calls run() with the -new flag: the state every run starts from.
StartRun ==
    /\ pc = "idle"
    /\ runs < MaxRuns
    /\ runs' = runs + 1
    /\ \E flag \in BOOLEAN : newOnly' = flag
    /\ store0' = store
    /\ UNCHANGED <<reported, idx, items, parsed, store, attempts, inserted, newItems, printed,
                   out, probe, result>>

\* loadItems: the GET fails in transport (or the body cannot be read into a
\* document), and run() returns the error.
FetchFail ==
    /\ StartRun
    /\ page' = NoPage
    /\ err' = "fetch"
    /\ pc' = "done"

\* loadItems: the GET returns a response; its status is not looked at, and
\* the body is read into a document.
FetchOk ==
    /\ StartRun
    /\ \E resp \in Pages : page' = resp
    /\ err' = "none"
    /\ pc' = "header"

\* main() returns, or exits with status 1 when run() returned an error: the
\* process is over and only the store is left of it.
Exit ==
    /\ pc = "done"
    /\ pc' = "idle"
    /\ newOnly' = FALSE
    /\ page' = NoPage
    /\ idx' = 0
    /\ items' = <<>>
    /\ parsed' = <<>>
    /\ err' = "none"
    /\ store0' = store
    /\ attempts' = <<>>
    /\ newItems' = <<>>
    /\ printed' = FALSE
    /\ out' = <<>>
    /\ UNCHANGED <<reported, runs, store, inserted, probe, result>>

\* The comparison of the heading's item with the labels.
labelsOk(hl) ==
    ~ \/ hl.Authority # LabelAuthority
      \/ hl.PublishedAtStr # LabelPublishedAt
      \/ hl.FoundAtStr # LabelFoundAt
      \/ hl.Name # LabelName
      \/ hl.Address # LabelAddress
      \/ hl.Reason # LabelReason
      \/ hl.LegalBasis # LabelLegalBasis
      \/ hl.Info # LabelInfo

\* The heading hl, as sel2item returned it, passes the sanity check of
\* loadItems.
headingOk(hl) ==
    /\ hl.err = "none"
    /\ labelsOk(hl.itm)

HeaderPasses == [h \in 1..Len(HeaderPool) |-> headingOk(HeaderResult[h])]

\* loadItems: the sanity check passes.
HeaderOk ==
    /\ pc = "header"
    /\ HeaderPasses[page.header]
    /\ pc' = "rows"
    /\ idx' = 1
    /\ UNCHANGED <<reported, runs, newOnly, page, items, parsed, err, store, store0,
                   attempts, inserted, newItems, printed, out, probe, result>>

\* loadItems: the heading is no item, or its labels are not the expected
\* ones; run() returns the error.
HeaderFail ==
    /\ pc = "header"
    /\ ~HeaderPasses[page.header]
    /\ err' = IF HeaderResult[page.header].err # "none" THEN "heading" ELSE "labels"
    /\ pc' = "done"
    /\ UNCHANGED <<reported, runs, newOnly, page, idx, items, parsed, store, store0,
                   attempts, inserted, newItems, printed, out, probe, result>>

\* A test on the trimmed text (a faulty variant of isSentinel).
isSentinelTrimmed(cells) == trimText(SelText(cells)) = Startseite

\* The test that skips a body row: the text of its cells is "Startseite".
isSentinel(cells) == SelText(cells) = Startseite

RowIsSentinel == [r \in 1..Len(RowPool) |-> isSentinel(RowPool[r])]

\* EachWithBreak: the row is the sentinel, and the loop goes on.
SkipRow ==
    /\ pc = "rows"
    /\ idx <= Len(page.rows)
    /\ RowIsSentinel[page.rows[idx]]
    /\ idx' = idx + 1
    /\ UNCHANGED <<reported, pc, runs, newOnly, page, items, parsed, err, store, store0,
                   attempts, inserted, newItems, printed, out, probe, result>>

\* EachWithBreak: the row yields an item, which is appended.
ExtractRow ==
    /\ pc = "rows"
    /\ idx <= Len(page.rows)
    /\ ~RowIsSentinel[page.rows[idx]]
    /\ RowResult[page.rows[idx]].err = "none"
    /\ items' = Append(items, RowResult[page.rows[idx]].itm)
    /\ idx' = idx + 1
    /\ UNCHANGED <<reported, pc, runs, newOnly, page, parsed, err, store, store0,
                   attempts, inserted, newItems, printed, out, probe, result>>

\* Partial results handed back with the error (a faulty variant of
\* itemsOnError).
itemsOnErrorKept(its) == its

\* What loadItems returns beside the error of a row: nil, whatever was
\* appended before.
itemsOnError(its) == <<>>

\* EachWithBreak: the row yields an error; the loop breaks, loadItems
\* returns nil and the error, and so does run().
ExtractRowFail ==
    /\ pc = "rows"
    /\ idx <= Len(page.rows)
    /\ ~RowIsSentinel[page.rows[idx]]
    /\ RowResult[page.rows[idx]].err # "none"
    /\ items' = itemsOnError(items)
    /\ err' = "item"
    /\ pc' = "done"
    /\ UNCHANGED <<reported, runs, newOnly, page, idx, parsed, store, store0, attempts,
                   inserted, newItems, printed, out, probe, result>>

\* A run that goes to the store whatever the flag (a faulty variant of
\* afterLoad).
afterLoadToStore(flag) == "store"

\* run: where it goes with the loaded items: to the store with -new, to the
\* printing without.
afterLoad(flag) == IF flag THEN "store" ELSE "print"

\* loadItems: every row was visited; the items are sorted and returned.
FinishLoad ==
    /\ pc = "rows"
    /\ idx > Len(page.rows)
    /\ parsed' = items
    /\ items' = SortStable(items)
    /\ pc' = afterLoad(newOnly)
    /\ UNCHANGED <<reported, runs, newOnly, page, idx, err, store, store0, attempts,
                   inserted, newItems, printed, out, probe, result>>

\* run: isFirstRun, as os.Stat of the file tells it.
isFirstRun(st) == ~st.exists

\* run: the file is missing, and sqliteInitStmt creates the table.
InitStore ==
    /\ pc = "store"
    /\ isFirstRun(store)
    /\ store' = [exists |-> TRUE, schema |-> TRUE, rows |-> <<>>]
    /\ pc' = "prepare"
    /\ UNCHANGED <<reported, runs, newOnly, page, idx, items, parsed, err, store0,
                   attempts, inserted, newItems, printed, out, probe, result>>

\* run: the file is missing, and sqliteInitStmt fails (the context's deadline,
\* the disk): no table is committed, the file may have been created, and
\* run() returns the error.
InitStoreFail ==
    /\ pc = "store"
    /\ isFirstRun(store)
    /\ \E created \in BOOLEAN :
          store' = [exists |-> created, schema |-> FALSE, rows |-> <<>>]
    /\ err' = "init"
    /\ pc' = "done"
    /\ UNCHANGED <<reported, runs, newOnly, page, idx, items, parsed, store0, attempts,
                   inserted, newItems, printed, out, probe, result>>

\* run: the file exists, and nothing is initialized.
SkipInit ==
    /\ pc = "store"
    /\ ~isFirstRun(store)
    /\ pc' = "prepare"
    /\ UNCHANGED <<reported, runs, newOnly, page, idx, items, parsed, err, store, store0,
                   attempts, inserted, newItems, printed, out, probe, result>>

\* run: the insert statement is prepared against the items table.
PrepareOk ==
    /\ pc = "prepare"
    /\ store.schema
    /\ pc' = "insert"
    /\ idx' = 1
    /\ UNCHANGED <<reported, runs, newOnly, page, items, parsed, err, store, store0,
                   attempts, inserted, newItems, printed, out, probe, result>>

\* run: there is no items table to prepare the statement against, and run()
\* returns the error.
PrepareFail ==
    /\ pc = "prepare"
    /\ ~store.schema
    /\ err' = "prepare"
    /\ pc' = "done"
    /\ UNCHANGED <<reported, runs, newOnly, page, idx, items, parsed, store, store0,
                   attempts, inserted, newItems, printed, out, probe, result>>

\* What the insert loop does with an item whose insert returned no error.
afterInsert(new, itm) == Append(new, itm)

\* A duplicate appended to newItems all the same (a faulty variant of
\* afterDuplicate).
afterDuplicateKept(new, itm) == Append(new, itm)

\* What the insert loop does with an item whose insert hit the unique
\* constraint (error code 2067): nothing, it continues.
afterDuplicate(new, itm) == new

\* A failed insert treated as a success (a faulty variant of afterFailure).
afterFailureKept(new, itm) == Append(new, itm)

\* What the insert loop does with an item whose insert failed for another
\* reason: the error is logged, nothing is appended, it continues.
afterFailure(new, itm) == new

\* A row added in place of the rows there were (a faulty variant of
\* insertRow).
insertRowOnly(st, itm) == [st EXCEPT !.rows = <<StoredRow(itm)>>]

\* The table after sqliteInsertStmt ran for an item: one more row.
insertRow(st, itm) == [st EXCEPT !.rows = Append(@, StoredRow(itm))]

\* The entry of an insert attempt in the history.
Attempt(itm, res) ==
    [itm |-> itm,
     seen |-> Fingerprint(itm) \in Hashes(store),  \* its hash was in the table
     known |-> itm \in inserted,                   \* its content was written before
     res |-> res]

\* The insert loop: the hash is not in the table, the row is written and the
\* item is appended to newItems.
InsertNew ==
    /\ pc = "insert"
    /\ idx <= Len(items)
    /\ Fingerprint(items[idx]) \notin Hashes(store)
    /\ store' = insertRow(store, items[idx])
    /\ newItems' = afterInsert(newItems, items[idx])
    /\ attempts' = Append(attempts, Attempt(items[idx], "inserted"))
    /\ inserted' = inserted \cup {items[idx]}
    /\ idx' = idx + 1
    /\ UNCHANGED <<reported, pc, runs, newOnly, page, items, parsed, err, store0,
                   printed, out, probe, result>>

\* The insert loop: the hash is in the table, the insert fails on the unique
\* constraint and the loop continues.
InsertDuplicate ==
    /\ pc = "insert"
    /\ idx <= Len(items)
    /\ Fingerprint(items[idx]) \in Hashes(store)
    /\ newItems' = afterDuplicate(newItems, items[idx])
    /\ attempts' = Append(attempts, Attempt(items[idx], "duplicate"))
    /\ idx' = idx + 1
    /\ UNCHANGED <<reported, pc, runs, newOnly, page, items, parsed, err, store, store0,
                   inserted, printed, out, probe, result>>

\* The insert loop: the insert fails for another reason (the context's
\* deadline, the disk); the error is logged and the loop continues.
InsertFail ==
    /\ pc = "insert"
    /\ idx <= Len(items)
    /\ newItems' = afterFailure(newItems, items[idx])
    /\ attempts' = Append(attempts, Attempt(items[idx], "failed"))
    /\ idx' = idx + 1
    /\ UNCHANGED <<reported, pc, runs, newOnly, page, items, parsed, err, store, store0,
                   inserted, printed, out, probe, result>>

\* The insert loop is over: items = newItems.
FinishInsert ==
    /\ pc = "insert"
    /\ idx > Len(items)
    /\ items' = newItems
    /\ pc' = "print"
    /\ UNCHANGED <<reported, runs, newOnly, page, idx, parsed, err, store, store0,
                   attempts, inserted, newItems, printed, out, probe, result>>

\* run: the items are printed, as JSON lines or as a table.
PrintItems ==
    /\ pc = "print"
    /\ printed' = TRUE
    /\ out' = items
    /\ reported' = IF newOnly THEN reported \o items ELSE reported
    /\ pc' = "done"
    /\ UNCHANGED <<runs, newOnly, page, idx, items, parsed, err, store, store0,
                   attempts, inserted, newItems, probe, result>>

Next ==
    \/ FetchFail
    \/ FetchOk
    \/ HeaderOk
    \/ HeaderFail
    \/ SkipRow
    \/ ExtractRow
    \/ ExtractRowFail
    \/ FinishLoad
    \/ InitStore
    \/ InitStoreFail
    \/ SkipInit
    \/ PrepareOk
    \/ PrepareFail
    \/ InsertNew
    \/ InsertDuplicate
    \/ InsertFail
    \/ FinishInsert
    \/ PrintItems
    \/ Exit

Spec == Init /\ [][Next]_vars

\* ------------------------------------------------------------------------
\* SpecExtract: sel2item on rows drawn from a bounded set

\* The delimiters as the page writes them between two dates.
SepSlash == <<" ", "/", " ">>
SepUnd == <<" ", "u", "n", "d", " ">>
SepBis == <<" ", "b", "i", "s", " ">>
SepComma == <<",", " ">>
Seps == {SepSlash, SepUnd, SepBis, SepComma}
\* Texts before and after a delimiter in a published-at cell.
SplitHeads == {D15, Offen, DIso}
SplitTails == {D16, D14 \o SepComma \o D16}

ProbePubs ==
    {D15, DIso, DFeb, DLeap, DShort, DYear0, DYear1, DTrailingZ, Offen, <<>>,
     <<" ">> \o D16 \o <<"\t">>}
    \cup {t \o d \o u : t \in SplitHeads, d \in Seps, u \in SplitTails}

ProbeFounds ==
    {Cell(D14), Cell(Offen), Cell(DIso), Cell(DFeb), Cell(DTrailingZ),
     Cell(<<>>), Cell(D14 \o SepUnd \o D15),
     [text |-> DBrText, p |-> DBrMarkup],
     [text |-> Offen, p |-> Offen]}

ProbeInputs == [n : 0..MaxCells, pub : ProbePubs, found : ProbeFounds]

\* The row a probe stands for.
ProbeRow == RowOf(probe.pub, probe.found, probe.n)

InitExtract ==
    /\ pc = "probe"
    /\ probe \in ProbeInputs
    /\ result = NoResult
    /\ runs = 0
    /\ newOnly = FALSE
    /\ page = NoPage
    /\ idx = 0
    /\ items = <<>>
    /\ parsed = <<>>
    /\ err = "none"
    /\ store = NoStore
    /\ store0 = NoStore
    /\ attempts = <<>>
    /\ inserted = {}
    /\ newItems = <<>>
    /\ printed = FALSE
    /\ out = <<>>
    /\ reported = <<>>

\* sel2item is called on the row.
Extract ==
    /\ pc = "probe"
    /\ result' = sel2item(ProbeRow)
    /\ pc' = "probed"
    /\ UNCHANGED <<reported, runs, newOnly, page, idx, items, parsed, err, store, store0,
                   attempts, inserted, newItems, printed, out, probe>>

NextExtract == Extract

SpecExtract == InitExtract /\ [][NextExtract]_vars

\* ------------------------------------------------------------------------
\* What the properties below speak of

\* The labels of a heading row: the text of each of its cells, trimmed.
HeaderLabels(cells) == [i \in 1..Len(cells) |-> trimText(cells[i].text)]

\* The run went past the sanity check of the heading.
Proceeded ==
    \/ pc \in {"rows", "store", "prepare", "insert", "print"}
    \/ pc = "done" /\ err \notin {"fetch", "heading", "labels"}

\* The run ended at the sanity check of the heading.
Rejected == pc = "done" /\ err \in {"heading", "labels"}

\* A string holds a ".".
HasDot(s) == \E i \in 1..Len(s) : s[i] = "."

\* The lengths of the months of a year.
MonthLengths(year) ==
    <<31, IF year % 4 = 0 /\ (year % 100 # 0 \/ year % 400 = 0) THEN 29 ELSE 28,
      31, 30, 31, 30, 31, 31, 30, 31, 30, 31>>

\* s is a calendar date written DD.MM.YYYY.
IsCalendarDate(s) ==
    /\ Len(s) = 10
    /\ s[3] = "." /\ s[6] = "."
    /\ \A i \in {1, 2, 4, 5, 7, 8, 9, 10} : s[i] \in Digits
    /\ Atoi(SubSeq(s, 4, 5)) \in 1..12
    /\ Atoi(SubSeq(s, 1, 2)) \in
           1..MonthLengths(Atoi(SubSeq(s, 7, 10)))[Atoi(SubSeq(s, 4, 5))]

\* The date DD.MM.YYYY names, as <<year, month, day>>.
CalendarDate(s) ==
    <<Atoi(SubSeq(s, 7, 10)), Atoi(SubSeq(s, 4, 5)), Atoi(SubSeq(s, 1, 2))>>

\* A date text that looks like a date and is none.
DateBad(s) == HasDot(s) /\ ~IsCalendarDate(s)

\* The date a date text stands for: none (the zero time) without a ".".
DateOrZero(s) == IF HasDot(s) THEN CalendarDate(s) ELSE ZeroTime

\* The raw date texts of the probed row, as sel2item stores them, and the
\* texts it goes on to parse.
ProbePubRaw == fixDateString(trimText(probe.pub))
ProbeFoundRaw ==
    fixDateString(IF HasDot(probe.found.p)
                  THEN ReplaceAll(probe.found.p, BrTag, SlashSep)
                  ELSE trimText(probe.found.text))
ProbePubText == trimText(ProbePubRaw)
ProbeFoundText == trimText(ProbeFoundRaw)

\* ------------------------------------------------------------------------
\* C1

\* C1: a heading whose labels are the eight expected ones lets loadItems go on
\* to the body rows, and a heading with any label that differs from the
\* expected one (the published-at and found-at labels included) ends the run
\* with an error before a body row is looked at.
C1_HeaderContract ==
    (page # NoPage /\ pc # "header") =>
        /\ HeaderLabels(HeaderCells) = ExpectedLabels => Proceeded
        /\ HeaderLabels(HeaderCells) # ExpectedLabels =>
               Rejected /\ idx = 0 /\ items = <<>>

\* ------------------------------------------------------------------------
\* C2

\* C2: for a text T without a delimiter and any text U, fixDateString of
\* T + " / " + U, T + " und " + U, T + " bis " + U and T + ", " + U is exactly
\* T, and T is the raw published-at text the item stores.
C2_FirstTokenExact ==
    (pc = "probed" /\ probe.n = WantParts) =>
        \A t \in SplitHeads, d \in Seps, u \in SplitTails :
            probe.pub = t \o d \o u =>
                /\ fixDateString(probe.pub) = t
                /\ result.err = "none" => result.itm.PublishedAtStr = t

\* ------------------------------------------------------------------------
\* C3

\* C3 as stated: a row of 8 cells yields an item, a row of 7 cells yields an
\* item with an empty Info and no error, and a row of any other number of
\* cells yields the error and no item.
C3_AsStated ==
    pc = "probed" =>
        /\ probe.n = 8 => result.err = "none"
        /\ probe.n = 7 => result.err = "none" /\ result.itm.Info = <<>>
        /\ probe.n \notin {7, 8} => result.err = "parts" /\ result.itm = NilItem

\* C3, amended: a row of 8 or of 7 cells never yields the cell-count error,
\* and yields an item unless one of its two date texts looks like a date and
\* is none; the item of a row of 7 cells has an empty Info; a row of any other
\* number of cells yields the cell-count error and no item.
C3_CellCount ==
    pc = "probed" =>
        /\ probe.n \in {7, 8} =>
               /\ result.err # "parts"
               /\ result.err = "none" <=>
                      ~DateBad(ProbePubText) /\ ~DateBad(ProbeFoundText)
        /\ probe.n = 7 /\ result.err = "none" => result.itm.Info = <<>>
        /\ probe.n \notin {7, 8} => result.err = "parts" /\ result.itm = NilItem

\* A row of 7 cells has yielded an item with an empty Info.
C3_Witness ==
    /\ pc = "probed"
    /\ probe.n = 7
    /\ result.err = "none"
    /\ result.itm.Info = <<>>

\* ------------------------------------------------------------------------
\* C4

\* C4: of a row with 7 or 8 cells, each date text (after fixDateString and
\* trimming) without a "." leaves its date at the zero time and raises no
\* error, one that is a DD.MM.YYYY calendar date sets the date to it, and
\* one with a "." that is no such date makes sel2item fail with no item; an
\* item that is returned holds both raw texts.
C4_DateFields ==
    (pc = "probed" /\ probe.n \in {7, 8}) =>
        /\ result.err = "publishedAt" <=> DateBad(ProbePubText)
        /\ result.err = "foundAt" <=>
               ~DateBad(ProbePubText) /\ DateBad(ProbeFoundText)
        /\ result.err # "none" => result.itm = NilItem
        /\ result.err = "none" =>
               /\ result.itm.PublishedAt = DateOrZero(ProbePubText)
               /\ result.itm.FoundAt = DateOrZero(ProbeFoundText)
               /\ result.itm.PublishedAtStr = ProbePubRaw
               /\ result.itm.FoundAtStr = ProbeFoundRaw

\* An item came back with a parsed published-at date and, its found-at text
\* holding no ".", no found-at date.
C4_Witness ==
    /\ pc = "probed"
    /\ result.err = "none"
    /\ probe.pub = D15
    /\ result.itm.PublishedAt = <<2025, 4, 15>>
    /\ probe.found = Cell(Offen)
    /\ result.itm.FoundAt = ZeroTime
    /\ result.itm.FoundAtStr = Offen

\* ------------------------------------------------------------------------
\* C5

\* The first body row that is not the sentinel and that sel2item fails on; 0
\* when there is none.
FirstFailing(rows) ==
    LET bad == {k \in 1..Len(rows) :
                   ~RowIsSentinel[rows[k]] /\ RowResult[rows[k]].err # "none"}
    IN  IF bad = {} THEN 0 ELSE CHOOSE k \in bad : \A j \in bad : k <= j

\* C5: when sel2item fails on a body row that is not the sentinel, the load
\* stops at the first such row, run() returns the error with no item at all,
\* nothing is written to the store and nothing is printed; a run whose page
\* has such a row never gets past the row.
C5_AbortOnRowError ==
    /\ (pc = "done" /\ err = "item") =>
           /\ idx = FirstFailing(page.rows)
           /\ idx # 0
           /\ items = <<>>
           /\ store = store0
           /\ attempts = <<>>
           /\ ~printed
           /\ out = <<>>
    /\ (Proceeded /\ FirstFailing(page.rows) # 0) =>
           \/ pc = "rows" /\ idx <= FirstFailing(page.rows)
           \/ pc = "done" /\ err = "item"

\* The second of two rows failed after the first had yielded an item.
C5_Witness ==
    /\ pc = "done"
    /\ err = "item"
    /\ Len(page.rows) = 2
    /\ idx = 2
    /\ ~RowIsSentinel[page.rows[1]]
    /\ items = <<>>

\* ------------------------------------------------------------------------
\* C6

\* run() holds the items as loadItems returned them.
Loaded ==
    \/ pc \in {"store", "prepare", "insert"}
    \/ pc = "print" /\ ~newOnly

\* A date as one number that orders it.
Ordinal(t) == t[1] * 10000 + t[2] * 100 + t[3]

\* An item whose published-at text was not taken for a date.
Absent(itm) == ~HasDot(trimText(itm.PublishedAtStr))

Count(s, x) == Cardinality({i \in 1..Len(s) : s[i] = x})

\* s is t rearranged, non-decreasing by PublishedAt, with the items of one
\* PublishedAt in the order they have in t.
SortedStably(s, t) ==
    /\ Len(s) = Len(t)
    /\ \A i \in 1..Len(t) : Count(s, t[i]) = Count(t, t[i])
    /\ \A i, j \in 1..Len(s) :
           i < j => Ordinal(s[i].PublishedAt) <= Ordinal(s[j].PublishedAt)
    /\ \A i \in 1..Len(t) :
           SelectSeq(s, LAMBDA x : x.PublishedAt = t[i].PublishedAt)
               = SelectSeq(t, LAMBDA x : x.PublishedAt = t[i].PublishedAt)

\* C6 as stated: the items loadItems returns are the extracted items sorted
\* stably by PublishedAt, and every item without a date comes before every
\* item with a parsed date.
C6_AsStated ==
    Loaded =>
        /\ SortedStably(items, parsed)
        /\ \A i, j \in 1..Len(items) :
               (Absent(items[i]) /\ ~Absent(items[j])) => i < j

\* C6, amended: the items loadItems returns are the extracted items sorted
\* stably by PublishedAt (a permutation, non-decreasing, equal dates in
\* document order), and every item without a date comes before every item
\* whose parsed date is later than 01.01.0001, the zero time.
C6_SortedStable ==
    Loaded =>
        /\ SortedStably(items, parsed)
        /\ \A i, j \in 1..Len(items) :
               (/\ Absent(items[i])
                /\ ~Absent(items[j])
                /\ Ordinal(items[j].PublishedAt) > Ordinal(ZeroTime)) => i < j

\* Two rows came in the order of their dates reversed, and were swapped.
C6_Witness ==
    /\ Loaded
    /\ Len(items) = 2
    /\ items # parsed
    /\ Ordinal(items[1].PublishedAt) < Ordinal(items[2].PublishedAt)

\* ------------------------------------------------------------------------
\* C7

\* Of the run's insert attempts that did not fail for another reason: an item
\* whose content was written before (in an earlier run or earlier in the
\* batch) is a duplicate, any other is inserted and is in the store from then
\* on; and two items that differ in a field have two fingerprints.
C7_Outcomes ==
    /\ \A k \in 1..Len(attempts) :
           attempts[k].res # "failed" =>
               /\ attempts[k].res = "duplicate" <=> attempts[k].known
               /\ attempts[k].res = "inserted" <=> ~attempts[k].known
               /\ attempts[k].itm \in inserted
               /\ Fingerprint(attempts[k].itm) \in Hashes(store)
    /\ \A j, k \in 1..Len(attempts) :
           attempts[j].itm # attempts[k].itm =>
               Fingerprint(attempts[j].itm) # Fingerprint(attempts[k].itm)

\* A step that adds a duplicate attempt leaves the store as it was.
C7_DuplicateKeepsStore ==
    (/\ Len(attempts') = Len(attempts) + 1
     /\ attempts'[Len(attempts')].res = "duplicate") => store' = store

\* C7: the same item content inserted twice (in one batch or across runs) is
\* inserted the first time and a duplicate the second time, the second
\* attempt leaving the store unchanged; two items that differ in one field,
\* be it one of the raw date texts that only the hash covers, have two
\* fingerprints and are both inserted.
C7_InsertThenDuplicate ==
    []C7_Outcomes /\ [][C7_DuplicateKeepsStore]_vars

\* Two items that differ in the raw published-at text only were both
\* inserted, and then an item of an earlier run came back a duplicate.
C7_Witness ==
    /\ Len(attempts) = 2
    /\ attempts[1].res = "inserted"
    /\ attempts[2].res = "inserted"
    /\ attempts[1].itm # attempts[2].itm
    /\ [attempts[1].itm EXCEPT !.PublishedAtStr = <<>>]
           = [attempts[2].itm EXCEPT !.PublishedAtStr = <<>>]
    /\ runs = 2
    /\ store0.rows # <<>>

\* ------------------------------------------------------------------------
\* C8

\* The items of the attempts that found their hash not in the table and
\* whose insert succeeded, in the order of the attempts.
NewlySeen ==
    LET kept == SelectSeq(attempts, LAMBDA a : ~a.seen /\ a.res = "inserted")
    IN  [k \in 1..Len(kept) |-> kept[k].itm]

\* C8: with -new, the items handed to the printer are the loaded items, in
\* their order, whose fingerprint was not in the store before their own
\* insert attempt and whose insert succeeded, and no others; every loaded
\* item was attempted once, in the loaded order.
C8_NewOnlyOutput ==
    (pc = "done" /\ newOnly /\ err = "none") =>
        /\ printed
        /\ [k \in 1..Len(attempts) |-> attempts[k].itm] = SortStable(parsed)
        /\ out = NewlySeen
        /\ \A k \in 1..Len(attempts) :
               attempts[k].res = "inserted" => ~attempts[k].seen

\* Of two loaded items the first was in the store already and the second was
\* new: the second alone was printed.
C8_Witness ==
    /\ pc = "done"
    /\ newOnly
    /\ err = "none"
    /\ Len(attempts) = 2
    /\ attempts[1].seen
    /\ attempts[1].res = "duplicate"
    /\ attempts[2].res = "inserted"
    /\ out = <<attempts[2].itm>>

\* ------------------------------------------------------------------------
\* C9

\* C9: a run with -new that finds the store without the items table has
\* created the table by the time it prepares and runs its inserts, whether
\* the file was missing or was there without the table.
C9_SchemaBeforeInsert ==
    (/\ newOnly
     /\ ~store0.schema
     /\ pc \in {"prepare", "insert", "print"} \/ (pc = "done" /\ err \in {"none", "prepare"}))
        => store.schema

\* ------------------------------------------------------------------------
\* C10

\* C10: a response whose status is not 2xx ends the run with the fetch error:
\* its body is not parsed, nothing is written to the store and nothing is
\* printed.
C10_Non2xxAborts ==
    (page # NoPage /\ page.status \notin 200..299) =>
        /\ pc \in {"header", "done"}
        /\ pc = "done" => err = "fetch"
        /\ items = <<>>
        /\ store = store0
        /\ ~printed

\* ------------------------------------------------------------------------
\* C11

\* The items of the attempts with a given outcome, in the order of the
\* attempts.
ItemsWith(res) ==
    LET kept == SelectSeq(attempts, LAMBDA a : a.res = res)
    IN  [k \in 1..Len(kept) |-> kept[k].itm]

\* A step in which an insert fails for another reason leaves the store, the
\* new items and the run's error as they were, and the loop at the next item.
C11_FailedStep ==
    (/\ Len(attempts') = Len(attempts) + 1
     /\ attempts'[Len(attempts')].res = "failed") =>
        /\ store' = store
        /\ newItems' = newItems
        /\ inserted' = inserted
        /\ err' = "none"
        /\ pc' = "insert"
        /\ idx' = idx + 1

\* A run in which an insert failed for another reason ends without an error,
\* having attempted every loaded item and printed the inserted ones alone;
\* the outcome of every other attempt is what the table's content made it.
C11_FailedRun ==
    (pc = "done" /\ \E k \in 1..Len(attempts) : attempts[k].res = "failed") =>
        /\ err = "none"
        /\ printed
        /\ Len(attempts) = Len(parsed)
        /\ out = ItemsWith("inserted")
        /\ Len(store.rows) = Len(store0.rows) + Len(ItemsWith("inserted"))
        /\ \A k \in 1..Len(attempts) :
               attempts[k].res # "failed" =>
                   (attempts[k].res = "duplicate" <=> attempts[k].seen)

\* C11: an insert that fails for a reason other than the unique constraint
\* writes no row and appends nothing to the new items, the loop goes on with
\* the next item, and the run ends without an error with the other items'
\* outcomes as they would be.
C11_InsertFailureSkipped ==
    []C11_FailedRun /\ [][C11_FailedStep]_vars

\* The insert of the first of two items failed, the second was inserted and
\* was printed alone.
C11_Witness ==
    /\ pc = "done"
    /\ err = "none"
    /\ Len(attempts) = 2
    /\ attempts[1].res = "failed"
    /\ attempts[2].res = "inserted"
    /\ attempts[1].itm # attempts[2].itm
    /\ out = <<attempts[2].itm>>
    /\ Len(store.rows) = Len(store0.rows) + 1

\* ------------------------------------------------------------------------
\* C12

\* s is the beginning of t.
IsPrefix(s, t) == Len(s) <= Len(t) /\ SubSeq(t, 1, Len(s)) = s

\* A step keeps every row of the table, with its column values.
C12_RowsKept == IsPrefix(store.rows, store'.rows)

\* No two rows of the table share a fingerprint, every row is the row of an
\* item that was inserted, and the table holds the rows it held when the run
\* started.
C12_RowsUnique ==
    /\ \A i, j \in 1..Len(store.rows) :
           store.rows[i].hash = store.rows[j].hash => i = j
    /\ \A i \in 1..Len(store.rows) :
           \E itm \in inserted : store.rows[i] = StoredRow(itm)
    /\ IsPrefix(store0.rows, store.rows)
    /\ Hashes(store0) \subseteq Hashes(store)

\* C12: no step of any run deletes or alters a row of the table: the rows,
\* and so the set of their fingerprints, only grow, across runs too; the
\* fingerprints of the rows are pairwise different.
C12_StoreOnlyGrows ==
    []C12_RowsUnique /\ [][C12_RowsKept]_vars

\* A second run added a row to a table that held two rows of the first run.
C12_Witness ==
    /\ runs = 2
    /\ Len(store0.rows) = 2
    /\ Len(store.rows) = 3
    /\ pc = "done"

\* ------------------------------------------------------------------------
\* C13

\* C13: of a row of 8 cells whose published-at text is a date, a found-at
\* text that is a date followed by a stray "z" yields an item with that
\* found-at date, not an error; a published-at text with a trailing "z" is
\* left as it is, and fails to parse.
C13_StrayZStripped ==
    (pc = "probed" /\ probe.n = WantParts) =>
        /\ (probe.pub = D15 /\ probe.found = Cell(DTrailingZ)) =>
               /\ result.err = "none"
               /\ result.itm.FoundAt = <<2025, 4, 15>>
        /\ probe.pub = DTrailingZ => result.err = "publishedAt"

\* ------------------------------------------------------------------------
\* C14

\* The body row the loop of loadItems is at.
RowAt == RowPool[page.rows[idx]]

\* The loop of loadItems is at a body row.
AtRow == pc = "rows" /\ idx <= Len(page.rows)

\* The step skips the row: no item, no error, and the loop goes on.
Skips ==
    /\ items' = items
    /\ err' = err
    /\ pc' = "rows"
    /\ idx' = idx + 1

\* The step hands the row to sel2item: its item is appended and the loop goes
\* on, or its error ends the run.
Extracts ==
    LET r == RowResult[page.rows[idx]]
    IN  \/ r.err = "none" /\ items' = Append(items, r.itm) /\ pc' = "rows"
                          /\ idx' = idx + 1 /\ err' = err
        \/ r.err # "none" /\ pc' = "done" /\ err' = "item"

\* The texts of a row's cells, put together from the last cell backwards.
RECURSIVE JoinedText(_)
JoinedText(cells) ==
    IF cells = <<>> THEN <<>>
    ELSE JoinedText(SubSeq(cells, 1, Len(cells) - 1)) \o cells[Len(cells)].text

\* The row is one cell whose text is the sentinel.
SoleSentinel(cells) == Len(cells) = 1 /\ cells[1].text = Startseite

\* C14 as stated: the row that is skipped is the row whose one text is the
\* sentinel; every other row, one whose cells together spell the sentinel
\* included, is handed to sel2item.
C14_AsStated ==
    [][AtRow => /\ SoleSentinel(RowAt) => Skips
                /\ ~SoleSentinel(RowAt) => Extracts]_vars

\* C14, amended: a row is skipped (no item, no error, the loop goes on) when
\* the texts of its cells, put together untrimmed, are exactly the sentinel,
\* be it in one cell or split over several; every other row, a row without
\* cells and the sentinel with white space around it included, is handed to
\* sel2item.
C14_SentinelSkipped ==
    [][AtRow => /\ JoinedText(RowAt) = Startseite => Skips
                /\ JoinedText(RowAt) # Startseite => Extracts]_vars

\* The sentinel row was skipped and the row after it yielded an item.
C14_Witness ==
    /\ pc = "rows"
    /\ idx = 3
    /\ SoleSentinel(RowPool[page.rows[1]])
    /\ Len(items) = 1
    /\ items[1] = RowResult[page.rows[2]].itm

\* ------------------------------------------------------------------------
\* C15

\* The hashes in the rows of a table.
RowHashes(st) == {st.rows[k].hash : k \in 1..Len(st.rows)}

\* The content of an item, field by field.
ContentOf(itm) ==
    <<itm.Authority, itm.PublishedAt, itm.PublishedAtStr, itm.FoundAt,
      itm.FoundAtStr, itm.Name, itm.Address, itm.Reason, itm.LegalBasis,
      itm.Info>>

\* C15: over all runs with -new against one store, no content is printed as
\* new twice, in one batch or in two runs; what is printed as new has its
\* row in the table; and a run prints nothing whose fingerprint was in the
\* table when the run started.
C15_ReportedOnce ==
    /\ \A i, j \in 1..Len(reported) :
           ContentOf(reported[i]) = ContentOf(reported[j]) => i = j
    /\ \A i \in 1..Len(reported) : ContentOf(reported[i]) \in RowHashes(store)
    /\ (printed /\ newOnly) =>
           \A k \in 1..Len(out) :
               /\ ContentOf(out[k]) \notin RowHashes(store0)
               /\ ContentOf(out[k]) \in RowHashes(store)

\* A second run with -new loaded an item the first run had printed and a new
\* one, and printed the new one alone.
C15_Witness ==
    /\ runs = 2
    /\ pc = "done"
    /\ newOnly
    /\ Len(reported) = 2
    /\ Len(attempts) = 2
    /\ \E k \in 1..2 : attempts[k].itm = reported[1] /\ attempts[k].res = "duplicate"
    /\ out = <<reported[2]>>

\* ------------------------------------------------------------------------
\* C16

\* C16: a run without -new leaves the store as it found it (a missing file
\* stays missing), attempts no insert, and, its load having succeeded,
\* prints the loaded items, all of them and in the order loadItems returned
\* them, whatever the table holds.
C16_NoStoreWithoutNew ==
    (runs > 0 /\ pc # "idle" /\ ~newOnly) =>
        /\ store = store0
        /\ attempts = <<>>
        /\ pc \notin {"store", "prepare", "insert"}
        /\ (pc = "done" /\ err = "none") =>
               /\ printed
               /\ SortedStably(out, parsed)
               /\ out = items

\* A run without -new printed an item whose row was in the table beside one
\* whose row was not, and left the table as it was.
C16_Witness ==
    /\ pc = "done"
    /\ ~newOnly
    /\ err = "none"
    /\ printed
    /\ Len(out) = 2
    /\ ContentOf(out[1]) \in RowHashes(store)
    /\ ContentOf(out[2]) \notin RowHashes(store)
    /\ store = store0

====
